---- MODULE Spec2Model ----
(***************************************************************************)
(* The remote-test server: project registry (server.rs), project entity    *)
(* (project.rs), content store (zip.rs) and the global hasher (lib.rs).    *)
(*                                                                         *)
(* Every RPC handler is a process h \in Handlers whose position is         *)
(* handler[h].pc; every snapshot task spawned by flush_projects is a       *)
(* process f \in FlushTasks.  A step of a process is the code between two  *)
(* suspension points that another process can observe.                     *)
(***************************************************************************)
EXTENDS Integers, Sequences, FiniteSets, TLC

\* ------------------------------------------------------------------ bounds

\* Longest list of test strings a RegisterProject request carries.
MaxTests == 3

\* Last second the clock reaches.
MaxClock == 1

\* Longest byte sequence handed to hash().
MaxData == 2

\* ------------------------------------------------------------ input domains

Names == {"a", "b"}
Handlers == {"h1", "h2"}
FlushOrder == <<"f1", "f2">>
FlushTasks == {FlushOrder[i] : i \in 1..Len(FlushOrder)}
NameOrder == <<"a", "b">>
Seconds == 0..MaxClock

\* Option<T>: None is the empty sequence, Some(x) the one-element sequence.
None == <<>>
Some(x) == <<x>>
IsSome(o) == o # <<>>
Unwrap(o) == o[1]

\* Uploaded archives, as byte sequences.
Blobs == {<<1>>, <<2, 1>>}

\* A test string of a pb::Project is a sequence of characters.
Sp == " "
Qt == "'"
TestStrings == {<<"p">>, <<"q", Sp, "x">>, <<Qt, "p">>}

\* Exit status of a launched command: Some(code), or None when killed by a signal.
ExitCodes == {Some(0), Some(1), None}

\* -------------------------------------------------------------- lib.rs hash

\* sha2 digest of a byte sequence: a fold over the bytes.
RECURSIVE Sha256(_, _)
Sha256(acc, bytes) ==
    IF bytes = <<>> THEN acc
    ELSE Sha256((acc * 31 + Head(bytes) + 1) % 251, Tail(bytes))

\* hasher.update(data) appends to the hasher's buffer, finalize_reset returns
\* the digest of the buffer and empties it.
HasherUpdate(buf, data) == buf \o data
HasherFinalize(buf) == Sha256(7, buf)

\* base64::encode_config of the digest: a string, here its two hex digits.
Base64(n) == <<n \div 16, n % 16>>

\* The digest hash() returns for data when it finds the hasher holding buf.
HashOf(buf, data) == Base64(HasherFinalize(HasherUpdate(buf, data)))

Digests == {HashOf(<<>>, b) : b \in Blobs}

\* ------------------------------------------------- project.rs: conversions

\* shell_words::split: words separated by blanks, a single quote opens a
\* quoted section that must be closed; Err (here None) when it is not.
RECURSIVE SplitFrom(_, _, _, _, _)
SplitFrom(s, words, cur, inWord, inQuote) ==
    IF s = <<>> THEN
        IF inQuote THEN None
        ELSE Some(IF inWord THEN Append(words, cur) ELSE words)
    ELSE LET c == Head(s) IN
        IF inQuote THEN
            IF c = Qt THEN SplitFrom(Tail(s), words, cur, TRUE, FALSE)
            ELSE SplitFrom(Tail(s), words, Append(cur, c), TRUE, TRUE)
        ELSE IF c = Qt THEN SplitFrom(Tail(s), words, cur, TRUE, TRUE)
        ELSE IF c = Sp THEN
            SplitFrom(Tail(s), IF inWord THEN Append(words, cur) ELSE words,
                      <<>>, FALSE, FALSE)
        ELSE SplitFrom(Tail(s), words, Append(cur, c), TRUE, FALSE)

ShellSplit(s) == SplitFrom(s, <<>>, <<>>, FALSE, FALSE)

\* shell_words::join: the words separated by one blank, a word that is empty
\* or holds a blank is quoted.
RECURSIVE JoinFrom(_, _)
JoinFrom(words, first) ==
    IF words = <<>> THEN <<>>
    ELSE LET w == Head(words)
             q == IF w = <<>> \/ (\E i \in 1..Len(w) : w[i] = Sp)
                  THEN <<Qt>> \o w \o <<Qt>> ELSE w
         IN (IF first THEN <<>> ELSE <<Sp>>) \o q \o JoinFrom(Tail(words), FALSE)

ShellJoin(words) == JoinFrom(words, TRUE)

\* From<pb::Project> for TestProject: every test string is split, a string
\* that does not split becomes the empty command vector; the hash is None.
FromPbProject(name, tests) ==
    [name  |-> name,
     tests |-> [i \in 1..Len(tests) |->
                   LET r == ShellSplit(tests[i]) IN
                   IF IsSome(r) THEN Unwrap(r) ELSE <<>>],
     hash  |-> None]

\* TestProject::get_tuple
GetTuple(project) ==
    [name |-> project.name,
     hash |-> IF IsSome(project.hash) THEN Unwrap(project.hash) ELSE <<>>]

\* Variant: every command that ended with an exit code counts as a success.
TestResultFrom_AnyExit(t) ==
    [command |-> t.command,
     stdout  |-> t.stdout,
     stderr  |-> t.stderr,
     success |-> IsSome(t.code)]

\* From<TestOutput> for TestResult
TestResultFrom(t) ==
    [command |-> t.command,
     stdout  |-> t.stdout,
     stderr  |-> t.stderr,
     success |-> IsSome(t.code) /\ Unwrap(t.code) = 0]

\* ------------------------------------------------------------------- state

VARIABLES
    projects,   \* RemoteServerContext.projects: name -> Option<TestProject>
    writer,     \* the process holding projects.write(), if any
    readers,    \* the processes holding projects.read()
    dirs,       \* base_dir/<name>: None when absent, else the archives extracted into it
    zipCache,   \* zip_cache_dir/zip-cached-<timestamp>: Option<blob>
    clock,      \* chrono::Utc::now(), in seconds
    hasher,     \* HASHER: the bytes fed since the last finalize_reset
    tmpFile,    \* projects.json.tmp: Option<file>
    finalFile,  \* projects.json: Option<file>
    handler,    \* each RPC handler's position and locals
    flush,      \* each snapshot task's position and open file
    capsule,    \* the Capsule instance its caller owns, if any
    pods,       \* the cluster: the pods that exist and the pods the files were copied to
    capOut      \* what the last call of a Capsule method returned

vars == <<projects, writer, readers, dirs, zipCache, clock, hasher,
          tmpFile, finalFile, handler, flush, capsule, pods, capOut>>

\* The server's state and the state of a capsule.
serverVars == <<projects, writer, readers, dirs, zipCache, clock, hasher,
                tmpFile, finalFile, handler, flush>>
capVars == <<capsule, pods, capOut>>

\* What the handlers share besides the map.
diskVars == <<dirs, zipCache, hasher>>
snapVars == <<tmpFile, finalFile>>

\* An empty file (just created or truncated) and a file holding one
\* serialization of the projects.
EmptyFile == [kind |-> "empty", data |-> <<>>]
JsonFile(data) == [kind |-> "json", data |-> data]

\* JSON values.
JNull == [j |-> "null"]
JStr(s) == [j |-> "string", v |-> s]
JArr(a) == [j |-> "array", v |-> a]
JObj(o) == [j |-> "object", v |-> o]

\* #[derive(Serialize)] of TestProject: an object of the three fields, a
\* hash of None is null.
ToJson(project) ==
    JObj([name  |-> JStr(project.name),
          tests |-> JArr([i \in 1..Len(project.tests) |->
                       JArr([k \in 1..Len(project.tests[i]) |-> JStr(project.tests[i][k])])]),
          hash  |-> IF IsSome(project.hash) THEN JStr(Unwrap(project.hash)) ELSE JNull])

\* serde_json::to_writer_pretty(&Vec<&TestProject>): the map's values, the
\* keys are not written.
RECURSIVE SerializeFrom(_, _)
SerializeFrom(p, order) ==
    IF order = <<>> THEN <<>>
    ELSE (IF IsSome(p[Head(order)]) THEN <<ToJson(Unwrap(p[Head(order)]))>> ELSE <<>>)
         \o SerializeFrom(p, Tail(order))

Serialize(p) == SerializeFrom(p, NameOrder)

\* Variant: the hash field is skipped when a project is read back.
FromJson_DropHash(obj) ==
    [name  |-> obj.v.name.v,
     tests |-> [i \in 1..Len(obj.v.tests.v) |->
                   [k \in 1..Len(obj.v.tests.v[i].v) |-> obj.v.tests.v[i].v[k].v]],
     hash  |-> None]

\* #[derive(Deserialize)] of TestProject, for an object that holds the three
\* fields with values of their types.
FromJson(obj) ==
    [name  |-> obj.v.name.v,
     tests |-> [i \in 1..Len(obj.v.tests.v) |->
                   [k \in 1..Len(obj.v.tests.v[i].v) |-> obj.v.tests.v[i].v[k].v]],
     hash  |-> IF obj.v.hash = JNull THEN None ELSE Some(obj.v.hash.v)]

\* serde_json::from_reader::<Vec<TestProject>>: the projects of the file, in
\* its order; Err (here None) for a file that holds no JSON document.
Deserialize(file) ==
    IF file.kind = "json"
    THEN Some([k \in 1..Len(file.data) |-> FromJson(file.data[k])])
    ELSE None

\* RemoteServerContext::add_projects: each project is inserted under its
\* name, a later one of the same name replaces the earlier.
RECURSIVE AddProjects(_, _)
AddProjects(p, list) ==
    IF list = <<>> THEN p
    ELSE AddProjects([p EXCEPT ![Head(list).name] = Some(Head(list))], Tail(list))

\* main's load: the registry a new server starts with.  No projects.json:
\* the registry is empty.
EmptyRegistry == [n \in Names |-> None]
LoadProjects(file) ==
    IF IsSome(file)
    THEN AddProjects(EmptyRegistry, Unwrap(Deserialize(Unwrap(file))))
    ELSE EmptyRegistry

\* No Capsule has been constructed, or it has been consumed.
NoCapsule == [kind |-> "none"]
\* No Capsule method has been called.
NoCall == [call |-> "none", res |-> "ok", cmds |-> <<>>, out |-> <<>>]
\* The cluster with no pod.
NoPods == [exist |-> {}, copied |-> {}]

Idle == [pc |-> "idle"]
FlushIdle == [pc |-> "idle", fd |-> "none"]
FlushOff == [pc |-> "off", fd |-> "none"]

\* RemoteServerContext::new, with no projects.json to load.  The snapshot
\* tasks outside F are never spawned.
InitOf(F) ==
    /\ projects = [n \in Names |-> None]
    /\ writer = None
    /\ readers = {}
    /\ dirs = [n \in Names |-> None]
    /\ zipCache = [t \in Seconds |-> None]
    /\ clock = 0
    /\ hasher = <<>>
    /\ tmpFile = None
    /\ finalFile = None
    /\ handler = [h \in Handlers |-> Idle]
    /\ flush = [f \in FlushTasks |-> IF f \in F THEN FlushIdle ELSE FlushOff]
    /\ capsule = NoCapsule
    /\ pods = NoPods
    /\ capOut = NoCall

\* ------------------------------------------------------------ the RwLock

\* Variant: a writer waits for the writer only, not for the readers.
CanWrite_IgnoreReaders == writer = None

CanWrite == writer = None /\ readers = {}

\* Variant: a reader does not wait for the writer.
CanRead_Always == TRUE

CanRead == writer = None

\* ---------------------------------------------------------- flush_projects

\* tokio::spawn of a snapshot task: the first task slot that is free starts
\* at the top of flush_to_file.
CanSpawn == \E f \in FlushTasks : flush[f].pc = "idle"
FirstFree(fl) ==
    FlushOrder[CHOOSE i \in 1..Len(FlushOrder) :
        /\ fl[FlushOrder[i]].pc = "idle"
        /\ \A j \in 1..(i - 1) : fl[FlushOrder[j]].pc # "idle"]
FlushProjects(fl) == [fl EXCEPT ![FirstFree(fl)] = [pc |-> "spawned", fd |-> "none"]]

\* ----------------------------------------------------------- the responses

Reply(op, name, success, error) ==
    [kind |-> "reply", op |-> op, name |-> name, success |-> success, error |-> error]
StatusErr(op, name, code) ==
    [kind |-> "status", op |-> op, name |-> name, success |-> FALSE, error |-> code]
\* A handler that has built its response; launched lists the commands a run
\* handed to Command::output().
RunDone(resp, launched) == [pc |-> "done", resp |-> resp, launched |-> launched]
Done(resp) == RunDone(resp, <<>>)

\* -------------------------------------------------------- register_project

\* Variant: the check for an existing name is lost.
ContainsKey_Never(p, name) == FALSE

\* Variant: only an Uninitialized entry counts as taken, a Committed one is
\* replaced by the new registration.
ContainsKey_OnlyUninitialized(p, name) == IsSome(p[name]) /\ ~IsSome(Unwrap(p[name]).hash)

\* p.contains_key(&name)
ContainsKey(p, name) == IsSome(p[name])

\* Variant: the snapshot is started before the name is checked, so a
\* refused registration starts a snapshot task too.
RegisterProject_FlushFirst(h, name, tests) ==
    /\ handler[h].pc = "idle"
    /\ CanWrite
    /\ CanSpawn
    /\ flush' = FlushProjects(flush)
    /\ LET project == FromPbProject(name, tests) IN
       IF ContainsKey(projects, project.name)
       THEN /\ handler' = [handler EXCEPT ![h] =
                   Done(Reply("register", name, FALSE, "already exists"))]
            /\ UNCHANGED projects
       ELSE /\ projects' = [projects EXCEPT ![project.name] = Some(project)]
            /\ handler' = [handler EXCEPT ![h] =
                   Done(Reply("register", name, TRUE, ""))]
    /\ UNCHANGED <<writer, readers, clock, diskVars, snapVars>>
    /\ UNCHANGED capVars

RegisterProject(h, name, tests) ==
    /\ handler[h].pc = "idle"
    /\ CanWrite
    /\ LET project == FromPbProject(name, tests) IN
       IF ContainsKey(projects, project.name)
       THEN /\ handler' = [handler EXCEPT ![h] =
                   Done(Reply("register", name, FALSE, "already exists"))]
            /\ UNCHANGED <<projects, flush>>
       ELSE /\ CanSpawn
            /\ projects' = [projects EXCEPT ![project.name] = Some(project)]
            /\ flush' = FlushProjects(flush)
            /\ handler' = [handler EXCEPT ![h] =
                   Done(Reply("register", name, TRUE, ""))]
    /\ UNCHANGED <<writer, readers, clock, diskVars, snapVars>>
    /\ UNCHANGED capVars

\* ------------------------------------------------------- increment_project

\* Variant: the stub answers Ok with a default response.
IncrementProject_Ok(h, name) ==
    /\ handler[h].pc = "idle"
    /\ handler' = [handler EXCEPT ![h] =
           Done([kind |-> "reply", op |-> "increment", name |-> name, hash |-> <<>>,
                 success |-> FALSE, error |-> ""])]
    /\ UNCHANGED <<projects, writer, readers, clock, diskVars, snapVars, flush>>
    /\ UNCHANGED capVars

IncrementProject(h, name) ==
    /\ handler[h].pc = "idle"
    /\ handler' = [handler EXCEPT ![h] =
           Done(StatusErr("increment", name, "unimplemented"))]
    /\ UNCHANGED <<projects, writer, readers, clock, diskVars, snapVars, flush>>
    /\ UNCHANGED capVars

\* The response leaves the server: the handler's task ends.
Complete(h) ==
    /\ handler[h].pc = "done"
    /\ handler' = [handler EXCEPT ![h] = Idle]
    /\ UNCHANGED <<projects, writer, readers, clock, diskVars, snapVars, flush>>
    /\ UNCHANGED capVars

\* ------------------------------------------------------ unregister_project

\* The block holding the write lock: remove, and flush when something was
\* removed.  An unknown name is answered at once.
\* Variant: the snapshot task is started whether or not something was removed.
FlushAfterRemove_Always(res) == TRUE

\* if res.is_some() { self.flush_projects() }
FlushAfterRemove(res) == IsSome(res)

\* Variant: the removal answers from the lookup and leaves the entry in
\* the map.
UnregisterRemove_KeepEntry(h, name) ==
    /\ handler[h].pc = "idle"
    /\ CanWrite
    /\ LET res == projects[name] IN
       /\ FlushAfterRemove(res) => CanSpawn
       /\ flush' = IF FlushAfterRemove(res) THEN FlushProjects(flush) ELSE flush
       /\ handler' = [handler EXCEPT ![h] =
              IF IsSome(res)
              THEN [pc |-> "unreg_clear", name |-> name, project |-> Unwrap(res)]
              ELSE Done(Reply("unregister", name, FALSE, "does not exist"))]
    /\ UNCHANGED <<projects, writer, readers, clock, diskVars, snapVars>>
    /\ UNCHANGED capVars

UnregisterRemove(h, name) ==
    /\ handler[h].pc = "idle"
    /\ CanWrite
    /\ LET res == projects[name] IN
       /\ FlushAfterRemove(res) => CanSpawn
       /\ projects' = [projects EXCEPT ![name] = None]
       /\ flush' = IF FlushAfterRemove(res) THEN FlushProjects(flush) ELSE flush
       /\ handler' = [handler EXCEPT ![h] =
              IF IsSome(res)
              THEN [pc |-> "unreg_clear", name |-> name, project |-> Unwrap(res)]
              ELSE Done(Reply("unregister", name, FALSE, "does not exist"))]
    /\ UNCHANGED <<writer, readers, clock, diskVars, snapVars>>
    /\ UNCHANGED capVars

\* TestProject::get_dir: base_dir/<name>
GetDir(project) == project.name

\* After the lock is released: remove_dir_all of the project's directory when
\* it exists.  A failed removal leaves the directory in place.
\* Variant: a failed remove_dir_all makes the unregistration fail.
ClearResponse_FailOnError(name, failed) ==
    Reply("unregister", name, ~failed, IF failed THEN "could not clear directory" ELSE "")

\* The response of a known project's unregistration: error is the failure
\* of remove_dir_all, if it failed.
ClearResponse(name, failed) ==
    Reply("unregister", name, TRUE, IF failed THEN "could not clear directory" ELSE "")

UnregisterClear(h, ok) ==
    /\ handler[h].pc = "unreg_clear"
    /\ LET dir == GetDir(handler[h].project)
           name == handler[h].name IN
       IF IsSome(dirs[dir])
       THEN /\ dirs' = IF ok THEN [dirs EXCEPT ![dir] = None] ELSE dirs
            /\ handler' = [handler EXCEPT ![h] = Done(ClearResponse(name, ~ok))]
       ELSE /\ ok
            /\ handler' = [handler EXCEPT ![h] = Done(ClearResponse(name, FALSE))]
            /\ UNCHANGED dirs
    /\ UNCHANGED <<projects, writer, readers, clock, zipCache, hasher, snapVars, flush>>
    /\ UNCHANGED capVars

\* ---------------------------------------------------------- update_project

UpdateReply(name, hash, success, error) ==
    [kind |-> "reply", op |-> "update", name |-> name, hash |-> hash,
     success |-> success, error |-> error]

\* projects.write() and get_mut: an unknown name is answered at once, else
\* the handler keeps the write lock for the rest of the update.
UpdateBegin(h, name, blob, hash) ==
    /\ handler[h].pc = "idle"
    /\ CanWrite
    /\ IF IsSome(projects[name])
       THEN /\ CanSpawn
            /\ writer' = Some(h)
            /\ handler' = [handler EXCEPT ![h] =
                   [pc |-> "upd_store", name |-> name, blob |-> blob, hash |-> hash]]
       ELSE /\ handler' = [handler EXCEPT ![h] =
                   Done(UpdateReply(name, hash, FALSE, "does not exist"))]
            /\ UNCHANGED writer
    /\ UNCHANGED <<projects, readers, clock, diskVars, snapVars, flush>>
    /\ UNCHANGED capVars

\* ZipFile::from_contents: the path is named after the clock, the hash is
\* computed by the global hasher, then the content is written.
ZipPath(now) == now
FromContents(content, now, buf) == [hash |-> HashOf(buf, content), path |-> ZipPath(now)]

\* Variant: the result of tokio::fs::write is dropped, the update goes on
\* with whatever is stored at the path.
UpdateStore_IgnoreWriteError(h, ok) ==
    /\ handler[h].pc = "upd_store"
    /\ writer = Some(h)
    /\ LET zipfile == FromContents(handler[h].blob, clock, hasher) IN
       /\ zipCache' = IF ok THEN [zipCache EXCEPT ![zipfile.path] = Some(handler[h].blob)]
                      ELSE zipCache
       /\ handler' = [handler EXCEPT ![h] =
              [pc |-> "upd_apply", name |-> handler[h].name,
               hash |-> handler[h].hash, zipfile |-> zipfile]]
    /\ hasher' = <<>>
    /\ UNCHANGED <<projects, writer, readers, clock, dirs, snapVars, flush>>
    /\ UNCHANGED capVars

UpdateStore(h, ok) ==
    /\ handler[h].pc = "upd_store"
    /\ writer = Some(h)
    /\ LET zipfile == FromContents(handler[h].blob, clock, hasher) IN
       IF ok
       THEN /\ zipCache' = [zipCache EXCEPT ![zipfile.path] = Some(handler[h].blob)]
            /\ handler' = [handler EXCEPT ![h] =
                   [pc |-> "upd_apply", name |-> handler[h].name,
                    hash |-> handler[h].hash, zipfile |-> zipfile]]
            /\ UNCHANGED writer
       ELSE /\ handler' = [handler EXCEPT ![h] =
                   Done(StatusErr("update", handler[h].name, "aborted"))]
            /\ writer' = None
            /\ UNCHANGED zipCache
    /\ hasher' = <<>>
    /\ UNCHANGED <<projects, readers, clock, dirs, snapVars, flush>>
    /\ UNCHANGED capVars

\* Variant: the claimed digest is accepted without comparing.
CompareHash_Always(zipfile, other) == TRUE

\* ZipFile::compare_hash
CompareHash(zipfile, other) == zipfile.hash = other

\* ZipFile::extract_into, when it succeeds: the archive stored at the
\* zipfile's path is unpacked into the directory, which is created if absent.
DirContent(dir) == IF IsSome(dir) THEN Unwrap(dir) ELSE {}
ExtractInto(dir, archive) == Some(DirContent(dir) \cup {archive})

\* Variant: the state check is lost, a committed project takes another update.
AlreadyInitialized_Never(project) == FALSE

\* apply_update's first check: self.hash.is_some()
AlreadyInitialized(project) == IsSome(project.hash)

\* Variant: the digest is set before the archive is extracted, so a failed
\* extraction answers success=false on a project that is Committed.
UpdateApply_CommitFirst(h, ok) ==
    /\ handler[h].pc = "upd_apply"
    /\ writer = Some(h)
    /\ LET name == handler[h].name
           hash == handler[h].hash
           content == handler[h].zipfile
           project == Unwrap(projects[name])
           dir == GetDir(project) IN
       IF AlreadyInitialized(project)
       THEN /\ ok
            /\ handler' = [handler EXCEPT ![h] =
                   Done(UpdateReply(name, hash, FALSE, "unsuitable state"))]
            /\ UNCHANGED <<projects, dirs, flush>>
       ELSE IF ~CompareHash(content, hash)
       THEN /\ ok
            /\ handler' = [handler EXCEPT ![h] =
                   Done(UpdateReply(name, hash, FALSE, "hashsum mismatch"))]
            /\ UNCHANGED <<projects, dirs, flush>>
       ELSE IF ok /\ IsSome(zipCache[content.path])
       THEN /\ dirs' = [dirs EXCEPT ![dir] =
                   ExtractInto(dirs[dir], Unwrap(zipCache[content.path]))]
            /\ projects' = [projects EXCEPT ![name] =
                   Some([project EXCEPT !.hash = Some(hash)])]
            /\ flush' = FlushProjects(flush)
            /\ handler' = [handler EXCEPT ![h] =
                   Done(UpdateReply(name, hash, TRUE, ""))]
       ELSE /\ dirs' \in {dirs, [dirs EXCEPT ![dir] = Some(DirContent(dirs[dir]))]}
            /\ projects' = [projects EXCEPT ![name] =
                   Some([project EXCEPT !.hash = Some(hash)])]
            /\ handler' = [handler EXCEPT ![h] =
                   Done(UpdateReply(name, hash, FALSE, "could not extract"))]
            /\ UNCHANGED flush
    /\ writer' = None
    /\ UNCHANGED <<readers, clock, zipCache, hasher, snapVars>>
    /\ UNCHANGED capVars

\* TestProject::apply_update, then the handler's response.  The write lock
\* is released when the handler returns.  The extraction fails when the
\* stored archive cannot be opened or unpacked; it may have created the
\* directory by then.
UpdateApply(h, ok) ==
    /\ handler[h].pc = "upd_apply"
    /\ writer = Some(h)
    /\ LET name == handler[h].name
           hash == handler[h].hash
           content == handler[h].zipfile
           project == Unwrap(projects[name])
           dir == GetDir(project) IN
       IF AlreadyInitialized(project)
       THEN /\ ok
            /\ handler' = [handler EXCEPT ![h] =
                   Done(UpdateReply(name, hash, FALSE, "unsuitable state"))]
            /\ UNCHANGED <<projects, dirs, flush>>
       ELSE IF ~CompareHash(content, hash)
       THEN /\ ok
            /\ handler' = [handler EXCEPT ![h] =
                   Done(UpdateReply(name, hash, FALSE, "hashsum mismatch"))]
            /\ UNCHANGED <<projects, dirs, flush>>
       ELSE IF ok /\ IsSome(zipCache[content.path])
       THEN /\ dirs' = [dirs EXCEPT ![dir] =
                   ExtractInto(dirs[dir], Unwrap(zipCache[content.path]))]
            /\ projects' = [projects EXCEPT ![name] =
                   Some([project EXCEPT !.hash = Some(hash)])]
            /\ flush' = FlushProjects(flush)
            /\ handler' = [handler EXCEPT ![h] =
                   Done(UpdateReply(name, hash, TRUE, ""))]
       ELSE /\ dirs' \in {dirs, [dirs EXCEPT ![dir] = Some(DirContent(dirs[dir]))]}
            /\ handler' = [handler EXCEPT ![h] =
                   Done(UpdateReply(name, hash, FALSE, "could not extract"))]
            /\ UNCHANGED <<projects, flush>>
    /\ writer' = None
    /\ UNCHANGED <<readers, clock, zipCache, hasher, snapVars>>
    /\ UNCHANGED capVars

\* --------------------------------------------------------------- run_tests

\* projects.read(), the lookup, and the entry of execute_all_tests.  The
\* read lock is held until the handler returns.
\* Variant: the run of an empty project is not refused.
NotInitialized_Never(project) == FALSE

\* execute_all_tests' first check: self.hash.is_none()
NotInitialized(project) == ~IsSome(project.hash)

RunBegin(h, name) ==
    /\ handler[h].pc = "idle"
    /\ CanRead
    /\ IF ~IsSome(projects[name])
       THEN /\ handler' = [handler EXCEPT ![h] =
                   Done(StatusErr("run", name, "invalid_argument"))]
            /\ UNCHANGED readers
       ELSE IF NotInitialized(Unwrap(projects[name]))
       THEN /\ handler' = [handler EXCEPT ![h] =
                   Done(StatusErr("run", name, "aborted: not initialized"))]
            /\ UNCHANGED readers
       ELSE /\ readers' = readers \cup {h}
            /\ handler' = [handler EXCEPT ![h] =
                   [pc |-> "run_loop", name |-> name, i |-> 0,
                    launched |-> <<>>, results |-> <<>>]]
    /\ UNCHANGED <<projects, writer, clock, diskVars, snapVars, flush>>
    /\ UNCHANGED capVars

\* What Command::output() can give: the process cannot be spawned, or it ran
\* and ended with an exit status.
Outcomes ==
    {[spawned |-> FALSE, code |-> None]} \cup {[spawned |-> TRUE, code |-> c] : c \in ExitCodes}

\* run_test of a command that could be launched with exit status code.
TestOutput(command, code) ==
    [command |-> ShellJoin(command), code |-> code,
     stdout |-> command[1], stderr |-> <<>>]

\* Variant: the tests are taken from the end of the list.
NextTest_Reversed(project, i) == project.tests[Len(project.tests) - i]

\* for (i, test) in self.tests.iter().enumerate()
NextTest(project, i) == project.tests[i + 1]

\* Variant: the error of a command that cannot be spawned is dropped and the
\* loop goes on with the next command.
AbortRun_Continue(st, name, test) ==
    [st EXCEPT !.i = st.i + 1, !.launched = Append(@, test)]

\* run_test(..).await? on a command that cannot be spawned: the loop is left
\* with the error, which run_tests maps to Status::aborted.
AbortRun(st, name, test) ==
    RunDone(StatusErr("run", name, "aborted: exec"), Append(st.launched, test))

\* One turn of the loop of execute_all_tests: run_test(tests[i]).  An empty
\* command vector makes command[0] panic; the panic unwinds the handler.
RunTest(h) ==
    /\ handler[h].pc = "run_loop"
    /\ LET name == handler[h].name
           project == Unwrap(projects[name])
           i == handler[h].i IN
       /\ i < Len(project.tests)
       /\ LET test == NextTest(project, i) IN
          IF test = <<>>
          THEN /\ handler' = [handler EXCEPT ![h] =
                      RunDone([kind |-> "panic", op |-> "run", name |-> name,
                               success |-> FALSE, error |-> "index out of bounds"],
                              handler[h].launched)]
               /\ readers' = readers \ {h}
          ELSE \E out \in Outcomes :
               IF ~out.spawned
               THEN /\ handler' = [handler EXCEPT ![h] = AbortRun(handler[h], name, test)]
                    /\ readers' = IF handler'[h].pc = "done" THEN readers \ {h} ELSE readers
               ELSE /\ handler' = [handler EXCEPT ![h] =
                           [@ EXCEPT !.i = i + 1,
                                     !.launched = Append(@, test),
                                     !.results = Append(@, TestOutput(test, out.code))]]
                    /\ UNCHANGED readers
    /\ UNCHANGED <<projects, writer, clock, diskVars, snapVars, flush>>
    /\ UNCHANGED capVars

\* The loop is over: the results are converted and the response is built
\* from the project's name and hash.
RunFinish(h) ==
    /\ handler[h].pc = "run_loop"
    /\ LET name == handler[h].name
           project == Unwrap(projects[name])
           results == handler[h].results
           tuple == GetTuple(project) IN
       /\ handler[h].i = Len(project.tests)
       /\ handler' = [handler EXCEPT ![h] =
              RunDone([kind |-> "reply", op |-> "run", name |-> tuple.name,
                       hash |-> tuple.hash, success |-> TRUE, error |-> "",
                       results |-> [k \in 1..Len(results) |-> TestResultFrom(results[k])]],
                      handler[h].launched)]
       /\ readers' = readers \ {h}
    /\ UNCHANGED <<projects, writer, clock, diskVars, snapVars, flush>>
    /\ UNCHANGED capVars

\* ----------------------------------------------------------- flush_to_file

\* projects.read(): the guard is held until the function returns.
FlushLock(f) ==
    /\ flush[f].pc = "spawned"
    /\ CanRead
    /\ readers' = readers \cup {f}
    /\ flush' = [flush EXCEPT ![f].pc = "locked"]
    /\ UNCHANGED <<projects, writer, clock, diskVars, snapVars, handler>>
    /\ UNCHANGED capVars

\* File::create("projects.json.tmp"): creates the file or truncates the one
\* that is there.  An error ends the task.
FlushCreate(f, ok) ==
    /\ flush[f].pc = "locked"
    /\ \/ /\ ok
          /\ tmpFile' = Some(EmptyFile)
          /\ flush' = [flush EXCEPT ![f] = [pc |-> "created", fd |-> "tmp"]]
          /\ UNCHANGED readers
       \/ /\ ~ok
          /\ flush' = [flush EXCEPT ![f] = FlushIdle]
          /\ readers' = readers \ {f}
          /\ UNCHANGED tmpFile
    /\ UNCHANGED <<projects, writer, clock, diskVars, finalFile, handler>>
    /\ UNCHANGED capVars

\* to_writer_pretty into the open file, which is the file now named
\* projects.json.tmp, or projects.json when another task renamed it, or no
\* name at all when it was replaced.  The file is closed afterwards.
FlushWrite(f, ok) ==
    /\ flush[f].pc = "created"
    /\ \/ /\ ok
          /\ LET file == JsonFile(Serialize(projects)) IN
             /\ tmpFile' = IF flush[f].fd = "tmp" THEN Some(file) ELSE tmpFile
             /\ finalFile' = IF flush[f].fd = "final" THEN Some(file) ELSE finalFile
          /\ flush' = [flush EXCEPT ![f] = [pc |-> "written", fd |-> "none"]]
          /\ UNCHANGED readers
       \/ /\ ~ok
          /\ flush' = [flush EXCEPT ![f] = FlushIdle]
          /\ readers' = readers \ {f}
          /\ UNCHANGED snapVars
    /\ UNCHANGED <<projects, writer, clock, diskVars, handler>>
    /\ UNCHANGED capVars

\* rename("projects.json.tmp", "projects.json"): fails when there is no
\* projects.json.tmp; the file open in another task follows the rename.
\* Variant: the task ends after writing the temporary file, the rename is
\* lost.
FlushRename_KeepTmp(f) ==
    /\ flush[f].pc = "written"
    /\ flush' = [flush EXCEPT ![f] = FlushIdle]
    /\ readers' = readers \ {f}
    /\ UNCHANGED <<projects, writer, clock, diskVars, snapVars, handler>>
    /\ UNCHANGED capVars

FlushRename(f) ==
    /\ flush[f].pc = "written"
    /\ IF IsSome(tmpFile)
       THEN /\ finalFile' = tmpFile
            /\ tmpFile' = None
            /\ flush' = [g \in FlushTasks |->
                   IF g = f THEN FlushIdle
                   ELSE [flush[g] EXCEPT !.fd =
                            IF @ = "tmp" THEN "final"
                            ELSE IF @ = "final" THEN "orphan" ELSE @]]
       ELSE /\ flush' = [flush EXCEPT ![f] = FlushIdle]
            /\ UNCHANGED snapVars
    /\ readers' = readers \ {f}
    /\ UNCHANGED <<projects, writer, clock, diskVars, handler>>
    /\ UNCHANGED capVars

\* ----------------------------------------------------- lib.rs: hash, by step

\* What a task hands to hash(): any byte sequence up to MaxData bytes.
HashData == UNION {[1..n -> {1, 2}] : n \in 0..MaxData}

\* Variant: the hasher is taken without waiting for the task that holds it.
HasherFree_Always == TRUE

\* HASHER's Mutex is free: no task is between lock() and the end of hash().
HasherFree == \A h \in Handlers : handler[h].pc \notin {"hash_locked", "hash_updated"}

\* HASHER.lock().await: the task gets the guard.
HashLock(h, data) ==
    /\ handler[h].pc = "idle"
    /\ HasherFree
    /\ handler' = [handler EXCEPT ![h] = [pc |-> "hash_locked", data |-> data]]
    /\ UNCHANGED <<projects, writer, readers, clock, diskVars, snapVars, flush>>
    /\ UNCHANGED capVars

\* hasher.update(data)
HashUpdate(h) ==
    /\ handler[h].pc = "hash_locked"
    /\ hasher' = HasherUpdate(hasher, handler[h].data)
    /\ handler' = [handler EXCEPT ![h].pc = "hash_updated"]
    /\ UNCHANGED <<projects, writer, readers, clock, dirs, zipCache, snapVars, flush>>
    /\ UNCHANGED capVars

\* hasher.finalize_reset() and the encoding of the digest; the guard is
\* dropped when the function returns.
HashFinalize(h) ==
    /\ handler[h].pc = "hash_updated"
    /\ hasher' = <<>>
    /\ handler' = [handler EXCEPT ![h] =
           Done([kind |-> "reply", op |-> "hash", name |-> "", success |-> TRUE,
                 error |-> "", data |-> handler[h].data,
                 digest |-> Base64(HasherFinalize(hasher))])]
    /\ UNCHANGED <<projects, writer, readers, clock, dirs, zipCache, snapVars, flush>>
    /\ UNCHANGED capVars

\* -------------------------------------------------------------- capsule.rs

\* Result<T, E>
Ok(v) == [ok |-> TRUE, v |-> v]
Err(e) == [ok |-> FALSE, v |-> e]

\* PodOptions: an image and a list of ports, each optional.
Images == {"busybox", "alpine"}
PortLists == {<<"80">>}
PodOptionsSet ==
    [image : {None} \cup {Some(i) : i \in Images},
     ports : {None} \cup {Some(p) : p \in PortLists}]

\* PodOptions::merge: what other sets replaces what self has.
Merge(self, other) ==
    [image |-> IF IsSome(other.image) THEN other.image ELSE self.image,
     ports |-> IF IsSome(other.ports) THEN other.ports ELSE self.ports]

\* PodOptions::as_args_str
AsArgsStr(options) ==
    (IF IsSome(options.image) THEN << <<"--image=", Unwrap(options.image)>> >> ELSE <<>>)
    \o (IF IsSome(options.ports)
        THEN [k \in 1..Len(Unwrap(options.ports)) |-> <<"--port=", Unwrap(options.ports)[k]>>]
        ELSE <<>>)

\* The identifiers a caller encapsulates under, and the pod's name.
Idents == {"x", "y"}
PodName(ident) == <<"rtk-capsule-", ident>>

\* The command vectors a caller runs: the split test strings, and the empty
\* vector of a string that does not split.
Commands == {<<>>} \cup {Unwrap(ShellSplit(t)) : t \in {s \in TestStrings : IsSome(ShellSplit(s))}}

\* Vec<String>::join(" ")
RECURSIVE PlainJoin(_)
PlainJoin(words) ==
    IF words = <<>> THEN <<>>
    ELSE IF Len(words) = 1 THEN Head(words)
    ELSE Head(words) \o <<Sp>> \o PlainJoin(Tail(words))

\* A TransparentCapsule as constructed, dir: None, and a KubernetesCapsule
\* as constructed, podname: None.
TransparentCapsule == [kind |-> "transparent", dir |-> None]
KubernetesCapsule(options) == [kind |-> "kubernetes", options |-> options, podname |-> None]

\* The kubectl command lines: the verb, the pod they name and the arguments.
KubeRunArgs(self) ==
    [verb |-> "run", pod |-> Unwrap(self.podname),
     args |-> << <<"run">>, Unwrap(self.podname) >> \o AsArgsStr(self.options)]
KubeCpArgs(self, src, dest) ==
    [verb |-> "cp", pod |-> Unwrap(self.podname),
     args |-> << <<"cp">>, <<src>>, Unwrap(self.podname) \o <<":", dest>> >>]
KubeExecArgs(self, cmd) ==
    [verb |-> "exec", pod |-> Unwrap(self.podname),
     args |-> << <<"exec">>, Unwrap(self.podname), <<"--">> >> \o cmd]
KubeDeleteArgs(self) ==
    [verb |-> "delete", pod |-> Unwrap(self.podname),
     args |-> << <<"delete">>, <<"pod">>, Unwrap(self.podname) >>]

\* What the cluster lets a kubectl command line answer: exit status 0 only
\* when it did what it was asked, a run when the pod was not there, the
\* others when it was.
Feasible(c, out, cl) ==
    (out.spawned /\ out.code = Some(0)) =>
        IF c.verb = "run" THEN c.pod \notin cl.exist ELSE c.pod \in cl.exist

\* The cluster after a kubectl command line.
Effect(c, out, cl) ==
    IF ~(out.spawned /\ out.code = Some(0)) THEN cl
    ELSE IF c.verb = "run" THEN [cl EXCEPT !.exist = @ \cup {c.pod}]
    ELSE IF c.verb = "cp" THEN [cl EXCEPT !.copied = @ \cup {c.pod}]
    ELSE IF c.verb = "delete" THEN [exist |-> cl.exist \ {c.pod}, copied |-> cl.copied \ {c.pod}]
    ELSE cl

\* Command::output().await: Err when the program cannot be spawned, else Ok
\* with the output, of which the exit code is kept here.
CommandOutput(out) == IF out.spawned THEN Ok(out.code) ELSE Err("io")

\* KubernetesCapsule::kube_cmd: the output of the program, the `?` passing
\* the error on.
KubeCmd(out) == CommandOutput(out)

\* KubernetesCapsule::kube_cmd_silent: as the code tests the exit code.
KubeCmdSilent(out) ==
    LET output == KubeCmd(out) IN
    IF ~output.ok THEN output
    ELSE IF IsSome(output.v) /\ (IF IsSome(output.v) THEN Unwrap(output.v) ELSE -1) = 0
    THEN Err("return code")
    ELSE Ok(<<>>)

\* An external command a Capsule method ran, and what the method made of it.
Ran(c, out, result) == [verb |-> c.verb, pod |-> c.pod, args |-> c.args, out |-> out, ok |-> result.ok]
Returned(call, result, cmds, out) ==
    [call |-> call, res |-> IF result.ok THEN "ok" ELSE "err", cmds |-> cmds, out |-> out]
\* A panic unwinds the caller: the capsule it owns is dropped.
Panicked(call) == [call |-> call, res |-> "panic", cmds |-> <<>>, out |-> <<>>]

\* A caller constructs a capsule.
CapsuleNew(kind, options) ==
    /\ capsule = NoCapsule
    /\ capsule' = IF kind = "transparent" THEN TransparentCapsule ELSE KubernetesCapsule(options)
    /\ capOut' = NoCall
    /\ UNCHANGED <<pods, serverVars>>

\* Capsule::encapsulate.  The pod backend names its pod, merges the options,
\* creates the pod with kube_run, which reads self.options, and copies the
\* directory with kube_cp; the `?` returns the first error.
Encapsulate(ident, dir, args, o1, o2) ==
    /\ capsule # NoCapsule
    /\ IF capsule.kind = "transparent"
       THEN /\ capsule' = [capsule EXCEPT !.dir = Some(dir)]
            /\ capOut' = Returned("encapsulate", Ok(<<>>), <<>>, <<>>)
            /\ UNCHANGED pods
       ELSE LET self == [capsule EXCEPT !.podname = Some(PodName(ident))]
                options == Merge(self.options, args)
                run == KubeRunArgs(self)
                r1 == KubeCmdSilent(o1)
                cl1 == Effect(run, o1, pods)
                cp == KubeCpArgs(self, dir, "/etc/repo/")
                r2 == KubeCmdSilent(o2)
            IN /\ capsule' = self
               /\ Feasible(run, o1, pods)
               /\ IF ~r1.ok
                  THEN /\ capOut' = Returned("encapsulate", r1, <<Ran(run, o1, r1)>>, <<>>)
                       /\ pods' = cl1
                  ELSE /\ Feasible(cp, o2, cl1)
                       /\ capOut' = Returned("encapsulate", r2,
                                             <<Ran(run, o1, r1), Ran(cp, o2, r2)>>, <<>>)
                       /\ pods' = Effect(cp, o2, cl1)
    /\ UNCHANGED serverVars

\* Capsule::run_test.  The transparent backend answers Err without a
\* directory, else runs cmd[0] with the arguments cmd[1..]; the pod backend
\* runs kubectl exec through kube_exec, which panics without a pod name.
CapsuleRunTest(cmd, o) ==
    /\ capsule # NoCapsule
    /\ IF capsule.kind = "transparent"
       THEN IF capsule.dir = None
            THEN /\ capOut' = Returned("run_test", Err("Directory not found"), <<>>, <<>>)
                 /\ UNCHANGED capsule
            ELSE IF cmd = <<>>
            THEN /\ capOut' = Panicked("run_test")
                 /\ capsule' = NoCapsule
            ELSE LET c == [verb |-> "test", pod |-> <<>>, args |-> cmd]
                     r == CommandOutput(o) IN
                 /\ capOut' = Returned("run_test", r, <<Ran(c, o, r)>>,
                        IF r.ok THEN TestOutput(cmd, o.code) ELSE <<>>)
                 /\ UNCHANGED capsule
       ELSE IF capsule.podname = None
            THEN /\ capOut' = Panicked("run_test")
                 /\ capsule' = NoCapsule
            ELSE LET c == KubeExecArgs(capsule, cmd)
                     r == KubeCmd(o) IN
                 /\ Feasible(c, o, pods)
                 /\ capOut' = Returned("run_test", r, <<Ran(c, o, r)>>,
                        IF r.ok
                        THEN [command |-> PlainJoin(cmd), code |-> o.code,
                              stdout |-> IF cmd = <<>> THEN <<>> ELSE cmd[1], stderr |-> <<>>]
                        ELSE <<>>)
                 /\ UNCHANGED capsule
    /\ UNCHANGED <<pods, serverVars>>

\* Capsule::discard(self): the capsule is consumed.  The transparent backend
\* has nothing to discard; the pod backend deletes its pod with
\* kube_delete_pod, which panics without a pod name.
Discard(o) ==
    /\ capsule # NoCapsule
    /\ capsule' = NoCapsule
    /\ IF capsule.kind = "transparent"
       THEN /\ capOut' = Returned("discard", Ok(<<>>), <<>>, <<>>)
            /\ UNCHANGED pods
       ELSE IF capsule.podname = None
       THEN /\ capOut' = Panicked("discard")
            /\ UNCHANGED pods
       ELSE LET c == KubeDeleteArgs(capsule)
                r == KubeCmdSilent(o) IN
            /\ Feasible(c, o, pods)
            /\ capOut' = Returned("discard", r, <<Ran(c, o, r)>>, <<>>)
            /\ pods' = Effect(c, o, pods)
    /\ UNCHANGED serverVars

\* ------------------------------------------------------------------- main

\* The server process is stopped and started again: main opens
\* projects.json, reads the projects and adds them to a new context.  The
\* tasks of the old process are gone, the files stay.  A projects.json that
\* cannot be read makes main panic: no server starts.
Startup ==
    /\ IsSome(finalFile) => IsSome(Deserialize(Unwrap(finalFile)))
    /\ projects' = LoadProjects(finalFile)
    /\ writer' = None
    /\ readers' = {}
    /\ hasher' = <<>>
    /\ handler' = [h \in Handlers |-> Idle]
    /\ flush' = [f \in FlushTasks |-> IF flush[f].pc = "off" THEN FlushOff ELSE FlushIdle]
    /\ UNCHANGED <<clock, dirs, zipCache, snapVars>>
    /\ UNCHANGED capVars

\* ------------------------------------------------------------ the system

\* The requests a client can send.
TestLists == UNION {[1..n -> TestStrings] : n \in 0..MaxTests}

\* The steps of the handlers H and the snapshot tasks F, for requests naming
\* the projects N with test lists TL, with the outcomes IO of the handlers'
\* file-system operations that can fail (TRUE: it succeeds), and the
\* outcomes FIO of those of the snapshot tasks.
NextOf(H, F, N, TL, IO, FIO) ==
    \/ \E h \in H, name \in N, tests \in TL : RegisterProject(h, name, tests)
    \/ \E h \in H, name \in N : UnregisterRemove(h, name)
    \/ \E h \in H, ok \in IO : UnregisterClear(h, ok)
    \/ \E h \in H, name \in N, blob \in Blobs, hash \in Digests :
          UpdateBegin(h, name, blob, hash)
    \/ \E h \in H, ok \in IO : UpdateStore(h, ok)
    \/ \E h \in H, ok \in IO : UpdateApply(h, ok)
    \/ \E h \in H, name \in N : IncrementProject(h, name)
    \/ \E h \in H, name \in N : RunBegin(h, name)
    \/ \E h \in H : RunTest(h)
    \/ \E h \in H : RunFinish(h)
    \/ \E h \in H : Complete(h)
    \/ \E f \in F : FlushLock(f)
    \/ \E f \in F, ok \in FIO : FlushCreate(f, ok)
    \/ \E f \in F, ok \in FIO : FlushWrite(f, ok)
    \/ \E f \in F : FlushRename(f)

\* Two handlers and one snapshot task serving both projects; no file-system
\* operation fails.
SmallTests == {<< <<"p">> >>}
Init == InitOf({"f1"})
Next == NextOf(Handlers, {"f1"}, Names, SmallTests, {TRUE}, {TRUE})
Spec == Init /\ [][Next]_vars

\* Two handlers serving one project; the handlers' file-system operations
\* may fail.
NextFault == NextOf(Handlers, {"f1"}, {"a"}, SmallTests, BOOLEAN, {TRUE})
SpecFault == Init /\ [][NextFault]_vars

\* One handler serving one project registered with any list of test strings.
NextRun == NextOf({"h1"}, {"f1"}, {"a"}, TestLists, BOOLEAN, {TRUE})
SpecRun == Init /\ [][NextRun]_vars

\* One handler and two snapshot tasks serving both projects; no file-system
\* operation fails.
InitSnap == InitOf(FlushTasks)
NextSnap == NextOf({"h1"}, FlushTasks, Names, SmallTests, {TRUE}, {TRUE})
SpecSnap == InitSnap /\ [][NextSnap]_vars

\* The snapshot task and the restart of the server, from any registry: the
\* first project with any list of test strings, both in either content
\* state, the directory of a Committed project holding its archive.  The
\* task has been started by the mutation that made the registry.
BlobOf(hash) == CHOOSE b \in Blobs : HashOf(<<>>, b) = hash
EntriesOf(name, TL) ==
    {None} \cup {Some([FromPbProject(name, tests) EXCEPT !.hash = hash]) :
                    tests \in TL, hash \in {None} \cup {Some(d) : d \in Digests}}
InitLoad ==
    /\ \E first \in EntriesOf(NameOrder[1], TestLists), second \in EntriesOf(NameOrder[2], SmallTests) :
           projects = [n \in Names |-> IF n = NameOrder[1] THEN first ELSE second]
    /\ writer = None
    /\ readers = {}
    /\ dirs = [n \in Names |->
                  IF IsSome(projects[n]) /\ IsSome(Unwrap(projects[n]).hash)
                  THEN Some({BlobOf(Unwrap(Unwrap(projects[n]).hash))}) ELSE None]
    /\ zipCache = [t \in Seconds |->
                  IF t = 0 /\ \E n \in Names : IsSome(dirs[n])
                  THEN Some(CHOOSE b \in Blobs : \E n \in Names : dirs[n] = Some({b}))
                  ELSE None]
    /\ clock = 0
    /\ hasher = <<>>
    /\ tmpFile = None
    /\ finalFile = None
    /\ handler = [h \in Handlers |-> Idle]
    /\ flush = [f \in FlushTasks |->
                  IF f = FlushOrder[1] THEN [pc |-> "spawned", fd |-> "none"] ELSE FlushOff]
    /\ capsule = NoCapsule
    /\ pods = NoPods
    /\ capOut = NoCall
NextLoad ==
    \/ FlushLock(FlushOrder[1])
    \/ FlushCreate(FlushOrder[1], TRUE)
    \/ FlushWrite(FlushOrder[1], TRUE)
    \/ FlushRename(FlushOrder[1])
    \/ Startup
SpecLoad == InitLoad /\ [][NextLoad]_vars

\* One handler and two snapshot tasks serving one project, no file-system
\* failure, under the scheduling of the tokio runtime: a task that can take
\* a step takes one (a handler that has begun a request goes on to its
\* answer, a test command ends, a snapshot task goes on to its rename), and
\* a snapshot task waiting for the read lock gets it, the RwLock serving its
\* waiters in the order they came.  No request has to arrive.
NextLive == NextOf({"h1"}, FlushTasks, {"a"}, SmallTests, {TRUE}, {TRUE})
Fairness ==
    /\ \A f \in FlushTasks :
          /\ SF_vars(FlushLock(f))
          /\ WF_vars(FlushCreate(f, TRUE))
          /\ WF_vars(FlushWrite(f, TRUE))
          /\ WF_vars(FlushRename(f))
    /\ \A h \in {"h1"} :
          /\ WF_vars(UnregisterClear(h, TRUE))
          /\ WF_vars(UpdateStore(h, TRUE))
          /\ WF_vars(UpdateApply(h, TRUE))
          /\ WF_vars(RunTest(h))
          /\ WF_vars(RunFinish(h))
          /\ WF_vars(Complete(h))
SpecLive == InitSnap /\ [][NextLive]_vars /\ Fairness

\* chrono::Utc::now() read by from_contents: a second passes.
Tick ==
    /\ clock < MaxClock
    /\ clock' = clock + 1
    /\ UNCHANGED <<projects, writer, readers, diskVars, snapVars, handler, flush>>
    /\ UNCHANGED capVars

\* One handler and one snapshot task serving one project while time passes;
\* no file-system operation fails.
NextClock ==
    \/ NextOf({"h1"}, {"f1"}, {"a"}, SmallTests, {TRUE}, {TRUE})
    \/ Tick
SpecClock == Init /\ [][NextClock]_vars

\* Two tasks that call hash() on any data, at any time.
NextHash ==
    \/ \E h \in Handlers, data \in HashData : HashLock(h, data)
    \/ \E h \in Handlers : HashUpdate(h)
    \/ \E h \in Handlers : HashFinalize(h)
    \/ \E h \in Handlers : Complete(h)
SpecHash == Init /\ [][NextHash]_vars

\* A caller that owns one capsule at a time, of either backend, and calls
\* the Capsule methods in any order the borrow checker accepts.
NextCapsule ==
    \/ \E kind \in {"transparent", "kubernetes"}, options \in PodOptionsSet :
          CapsuleNew(kind, options)
    \/ \E ident \in Idents, dir \in Names, args \in PodOptionsSet, o1, o2 \in Outcomes :
          Encapsulate(ident, dir, args, o1, o2)
    \/ \E cmd \in Commands, o \in Outcomes : CapsuleRunTest(cmd, o)
    \/ \E o \in Outcomes : Discard(o)
SpecCapsule == Init /\ [][NextCapsule]_vars

\* ---------------------------------------------------------------- claims

\* The request a handler serves after a step that took it from idle.
StartedOp(st) ==
    IF st.pc = "done" THEN st.resp.op
    ELSE IF st.pc = "unreg_clear" THEN "unregister"
    ELSE IF st.pc \in {"upd_store", "upd_apply"} THEN "update"
    ELSE IF st.pc = "run_loop" THEN "run"
    ELSE "none"
StartedName(st) == IF st.pc = "done" THEN st.resp.name ELSE st.name
Starts(h, op) == handler[h].pc = "idle" /\ handler'[h].pc # "idle" /\ StartedOp(handler'[h]) = op
Answers(h, from) == handler[h].pc = from /\ handler'[h].pc = "done"
Answered(h, op) == handler[h].pc = "done" /\ handler[h].resp.op = op
Committed(o) == IsSome(o) /\ IsSome(Unwrap(o).hash)
Uninitialized(o) == IsSome(o) /\ Unwrap(o).hash = None

\* C1: a RegisterProject step answers success=true exactly when the name was
\* absent when it held the write lock, and then the entry is there,
\* Uninitialized; for a name that was present it answers success=false and
\* the entry is as before.  No other name's entry changes, so registering two
\* different names succeeds for both in either order.
C1_RegisterContract ==
    [][\A h \in Handlers : Starts(h, "register") =>
          LET r == handler'[h].resp
              n == r.name IN
          /\ r.kind = "reply"
          /\ r.success <=> ~IsSome(projects[n])
          /\ r.success => /\ Uninitialized(projects'[n])
                          /\ Unwrap(projects'[n]).name = n
          /\ ~r.success => /\ r.error = "already exists"
                           /\ projects'[n] = projects[n]
          /\ \A m \in Names \ {n} : projects'[m] = projects[m]
          /\ dirs' = dirs]_vars

\* Both names are registered, one handler has just registered one of them
\* and the other has just been refused the name that was taken.
C1_Witness ==
    \E h, g \in Handlers :
        /\ Answered(h, "register") /\ handler[h].resp.success
        /\ Answered(g, "register") /\ ~handler[g].resp.success
        /\ handler[h].resp.name # handler[g].resp.name
        /\ \A n \in Names : IsSome(projects[n])

\* The digest of the bytes stored at the path of the handler's zipfile.
StoredDigest(h) == HashOf(<<>>, Unwrap(zipCache[handler[h].zipfile.path]))

Launched(st) == IF st.pc \in {"run_loop", "done"} THEN st.launched ELSE <<>>

\* C4: a step that launches a test command finds the project Committed, and
\* a run of an Uninitialized project is answered with the not-initialized
\* error at once, with no command launched.
C4_RunNeedsContent ==
    [][\A h \in Handlers :
          /\ Len(Launched(handler'[h])) > Len(Launched(handler[h])) =>
                Committed(projects[handler[h].name])
          /\ (Starts(h, "run") /\ Uninitialized(projects[StartedName(handler'[h])])) =>
                /\ handler'[h].pc = "done"
                /\ handler'[h].resp.kind = "status"
                /\ handler'[h].resp.error = "aborted: not initialized"
                /\ handler'[h].launched = <<>>
                /\ readers' = readers]_vars

\* A run of an Uninitialized project has been refused while the other
\* handler is running the tests of a Committed one.
C4_Witness ==
    \E h, g \in Handlers :
        /\ Answered(h, "run") /\ handler[h].resp.error = "aborted: not initialized"
        /\ handler[g].pc = "run_loop" /\ handler[g].launched # <<>>
        /\ Uninitialized(projects[handler[h].resp.name])

\* C5: while a run is in its loop it has launched exactly the first i tests
\* of the project's list, in the list's order, and holds one outcome for
\* each of them, whatever their exit status; the results response of a run
\* holds one outcome per test of the list, outcome k for test k.
C5_RunInOrder ==
    \A h \in Handlers :
        /\ handler[h].pc = "run_loop" =>
              LET st == handler[h]
                  t == Unwrap(projects[st.name]).tests IN
              /\ st.i <= Len(t)
              /\ st.launched = SubSeq(t, 1, st.i)
              /\ Len(st.results) = st.i
              /\ \A k \in 1..st.i : /\ st.results[k].command = ShellJoin(t[k])
                                    /\ st.results[k].code \in ExitCodes
        /\ (Answered(h, "run") /\ handler[h].resp.kind = "reply") =>
              LET r == handler[h].resp
                  t == Unwrap(projects[r.name]).tests IN
              /\ handler[h].launched = t
              /\ Len(r.results) = Len(t)
              /\ \A k \in 1..Len(t) : r.results[k].command = ShellJoin(t[k])

\* A run of two different commands has answered with two outcomes, the first
\* a failure and the second a success.
C5_Witness ==
    \E h \in Handlers :
        /\ Answered(h, "run") /\ handler[h].resp.kind = "reply"
        /\ Len(handler[h].resp.results) = 2
        /\ handler[h].resp.results[1].command # handler[h].resp.results[2].command
        /\ ~handler[h].resp.results[1].success
        /\ handler[h].resp.results[2].success

\* C6: a run never goes on after a command that could not be launched (every
\* launched command of a run in its loop has an outcome), and the run that
\* met one ends with an aborted status that carries no results, having
\* launched the tests up to that command and none after it.
C6_LaunchFailureAborts ==
    \A h \in Handlers :
        /\ handler[h].pc = "run_loop" => Len(handler[h].launched) = Len(handler[h].results)
        /\ (Answered(h, "run") /\ handler[h].resp.error = "aborted: exec") =>
              LET t == Unwrap(projects[handler[h].resp.name]).tests
                  k == Len(handler[h].launched) IN
              /\ handler[h].resp.kind = "status"
              /\ "results" \notin DOMAIN handler[h].resp
              /\ 1 <= k /\ k <= Len(t)
              /\ handler[h].launched = SubSeq(t, 1, k)

\* The second of three commands could not be launched: the run is aborted,
\* the third was not launched.
C6_Witness ==
    \E h \in Handlers :
        /\ Answered(h, "run") /\ handler[h].resp.error = "aborted: exec"
        /\ Len(handler[h].launched) = 2
        /\ Len(Unwrap(projects[handler[h].resp.name]).tests) = 3

\* C7: an UnregisterProject step for a name that is not registered answers
\* success=false, "does not exist", and changes neither the map nor a
\* directory nor the snapshot files, and starts no snapshot task.
C7_UnregisterUnknown ==
    [][\A h \in Handlers :
          (Starts(h, "unregister") /\ ~IsSome(projects[StartedName(handler'[h])])) =>
              /\ handler'[h].pc = "done"
              /\ handler'[h].resp.kind = "reply"
              /\ ~handler'[h].resp.success
              /\ handler'[h].resp.error = "does not exist"
              /\ projects' = projects
              /\ dirs' = dirs
              /\ tmpFile' = tmpFile /\ finalFile' = finalFile
              /\ flush' = flush]_vars

\* An unknown name has been refused while the other project is registered.
C7_Witness ==
    \E h \in Handlers :
        /\ Answered(h, "unregister") /\ ~handler[h].resp.success
        /\ ~IsSome(projects[handler[h].resp.name])
        /\ \E n \in Names : Committed(projects[n])

\* C8: an UnregisterProject step for a registered name removes the entry,
\* and the handler then answers success=true without touching the map; the
\* response carries an error string exactly when the directory was there and
\* could not be removed.
C8_UnregisterKnown ==
    [][\A h \in Handlers :
          /\ (Starts(h, "unregister") /\ IsSome(projects[StartedName(handler'[h])])) =>
                /\ handler'[h].pc = "unreg_clear"
                /\ projects'[handler'[h].name] = None
          /\ Answers(h, "unreg_clear") =>
                LET r == handler'[h].resp
                    dir == handler[h].name IN
                /\ r.kind = "reply" /\ r.op = "unregister"
                /\ r.success
                /\ projects' = projects
                /\ (r.error # "") <=> (IsSome(dirs[dir]) /\ IsSome(dirs'[dir]))
                /\ (r.error = "") => dirs'[dir] = None]_vars

\* The removal of the directory failed: the answer is success=true with the
\* error string, the entry is gone and the directory is still there.
C8_Witness ==
    \E h \in Handlers :
        /\ Answered(h, "unregister") /\ handler[h].resp.success
        /\ handler[h].resp.error = "could not clear directory"
        /\ projects[handler[h].resp.name] = None
        /\ IsSome(dirs[handler[h].resp.name])

\* C9: an IncrementProject step answers with the unimplemented status and
\* changes nothing but the handler's own position.
C9_IncrementRejected ==
    [][\A h \in Handlers : Starts(h, "increment") =>
          /\ handler'[h].pc = "done"
          /\ handler'[h].resp.kind = "status"
          /\ handler'[h].resp.error = "unimplemented"
          /\ \A g \in Handlers \ {h} : handler'[g] = handler[g]
          /\ UNCHANGED <<projects, writer, readers, dirs, zipCache, clock, hasher,
                         tmpFile, finalFile, flush>>]_vars

\* An increment has been rejected while a project is Committed.
C9_Witness ==
    \E h \in Handlers :
        /\ Answered(h, "increment")
        /\ \E n \in Names : Committed(projects[n])

\* C10: a step that gives a project a digest is the apply step of an update
\* of that project, the digest is the one computed over the bytes stored at
\* the update's path, and those bytes are what the step extracted into the
\* project's directory.
C10_DigestOfExtracted ==
    [][\A n \in Names :
          (Committed(projects'[n]) /\ projects'[n] # projects[n]) =>
              \E h \in Handlers :
                  /\ handler[h].pc = "upd_apply" /\ handler[h].name = n
                  /\ handler'[h].pc = "done"
                  /\ IsSome(zipCache[handler[h].zipfile.path])
                  /\ Unwrap(projects'[n]).hash = Some(StoredDigest(h))
                  /\ IsSome(dirs'[n])
                  /\ Unwrap(zipCache[handler[h].zipfile.path]) \in Unwrap(dirs'[n])
                  /\ Unwrap(dirs'[n]) = DirContent(dirs[n])
                         \cup {Unwrap(zipCache[handler[h].zipfile.path])}]_vars

\* A project holds the digest of an archive that is in its directory, after
\* an update that claimed the other archive's digest for it was refused.
C10_Witness ==
    \E n \in Names, h \in Handlers :
        /\ Committed(projects[n])
        /\ \E b \in DirContent(dirs[n]) : Some(HashOf(<<>>, b)) = Unwrap(projects[n]).hash
        /\ Answered(h, "update") /\ handler[h].resp.name = n
        /\ handler[h].resp.error = "hashsum mismatch"
        /\ Some(handler[h].resp.hash) # Unwrap(projects[n]).hash

\* The handler h has just taken the entry of name n out of the map.
Unregisters(h, n) ==
    /\ Starts(h, "unregister")
    /\ handler'[h].pc = "unreg_clear"
    /\ handler'[h].name = n

\* C11: while a name stays registered its content state only moves from
\* Uninitialized to Committed: a Committed entry is left exactly as it is by
\* every step but the unregistration that removes it, an Uninitialized entry
\* changes only by receiving a digest, the step that gives the digest is the
\* successful answer of an update of that name, and an entry appears only by
\* a successful registration, Uninitialized.
C11_ContentMonotonic ==
    [][\A n \in Names :
          /\ Committed(projects[n]) =>
                \/ projects'[n] = projects[n]
                \/ /\ projects'[n] = None
                   /\ \E h \in Handlers : Unregisters(h, n)
          /\ Uninitialized(projects[n]) =>
                \/ projects'[n] = projects[n]
                \/ /\ projects'[n] = None
                   /\ \E h \in Handlers : Unregisters(h, n)
                \/ /\ Committed(projects'[n])
                   /\ Unwrap(projects'[n]).tests = Unwrap(projects[n]).tests
                   /\ \E h \in Handlers :
                         /\ Answers(h, "upd_apply") /\ handler[h].name = n
                         /\ handler'[h].resp.success
          /\ (projects[n] = None /\ IsSome(projects'[n])) =>
                /\ Uninitialized(projects'[n])
                /\ \E h \in Handlers :
                      /\ Starts(h, "register") /\ handler'[h].resp.success
                      /\ handler'[h].resp.name = n]_vars

\* A Committed project has met a register attempt, a second update and a run,
\* and its snapshot has been written: it still holds its digest.
C11_Witness ==
    \E n \in Names, h, g \in Handlers :
        /\ Committed(projects[n])
        /\ Answered(h, "register") /\ handler[h].resp.name = n /\ ~handler[h].resp.success
        /\ Answered(g, "update") /\ handler[g].resp.name = n
        /\ handler[g].resp.error = "unsuitable state"
        /\ IsSome(finalFile) /\ Unwrap(finalFile).kind = "json"
        /\ \E k \in 1..Len(Unwrap(finalFile).data) :
              Unwrap(finalFile).data[k] = ToJson(Unwrap(projects[n]))

\* The processes whose position lies between taking projects.read() and
\* dropping the guard, and those between projects.write() and the drop.
ReadHolders ==
    {h \in Handlers : handler[h].pc = "run_loop"}
        \cup {f \in FlushTasks : flush[f].pc \in {"locked", "created", "written"}}
WriteHolders == {h \in Handlers : handler[h].pc \in {"upd_store", "upd_apply"}}

\* C12: the processes inside a read section are exactly the lock's readers
\* and those inside a write section are the lock's writer, of which there is
\* at most one and then no reader; and a step that changes the map is taken
\* while no process reads it and no other process writes it.
C12_ReadersOrWriter ==
    /\ [](/\ readers = ReadHolders
          /\ WriteHolders = (IF IsSome(writer) THEN {Unwrap(writer)} ELSE {})
          /\ Cardinality(WriteHolders) <= 1
          /\ WriteHolders # {} => ReadHolders = {})
    /\ [][projects' # projects =>
             /\ ReadHolders = {}
             /\ \A h \in WriteHolders : handler'[h].pc = "done"]_vars

\* Both handlers run tests while the snapshot task writes its file: three
\* readers hold the map together.
C12_Witness ==
    /\ Cardinality(readers) = 3
    /\ \A h \in Handlers : handler[h].pc = "run_loop"
    /\ \E f \in FlushTasks : flush[f].pc = "created"
    /\ writer = None

\* The registry as a sequential object: the success flag and the map after a
\* request that is served alone on the map p.
SeqRegister(p, n, tests) ==
    [success |-> p[n] = None,
     map     |-> IF p[n] = None THEN [p EXCEPT ![n] = Some(FromPbProject(n, tests))] ELSE p]
SeqUnregister(p, n) ==
    [success |-> IsSome(p[n]),
     map     |-> [p EXCEPT ![n] = None]]
SeqUpdate(p, n, blob, hash) ==
    LET ok == Uninitialized(p[n]) /\ HashOf(<<>>, blob) = hash IN
    [success |-> ok,
     map     |-> IF ok THEN [p EXCEPT ![n] = Some([Unwrap(p[n]) EXCEPT !.hash = Some(hash)])]
                 ELSE p]

\* C13: every register, unregister and update takes effect in one step, with
\* the success flag and the map the sequential registry gives for the map of
\* that step: a register and an unregister where they hold the write lock,
\* an update of an unknown name where it looks the name up, any other update
\* where it answers, the map, the stored blob and the hasher having been
\* left alone by every other process since the update took the lock.  The
\* map changes in no other step.  (No file-system operation fails.)
C13_Linearizable ==
    [][/\ \A h \in Handlers :
            /\ Starts(h, "register") =>
                  LET n == handler'[h].resp.name IN
                  \E tests \in TestLists :
                      /\ handler'[h].resp.success = SeqRegister(projects, n, tests).success
                      /\ projects' = SeqRegister(projects, n, tests).map
            /\ Starts(h, "unregister") =>
                  LET n == StartedName(handler'[h]) IN
                  /\ projects' = SeqUnregister(projects, n).map
                  /\ IF SeqUnregister(projects, n).success
                     THEN handler'[h].pc = "unreg_clear"
                     ELSE handler'[h].pc = "done" /\ ~handler'[h].resp.success
            /\ Answers(h, "unreg_clear") =>
                  /\ handler'[h].resp.success
                  /\ projects' = projects
            /\ (Starts(h, "update") /\ handler'[h].pc = "done") =>
                  /\ projects[handler'[h].resp.name] = None
                  /\ ~handler'[h].resp.success
                  /\ projects' = projects
            /\ (Starts(h, "update") /\ handler'[h].pc # "done") =>
                  /\ handler'[h].pc = "upd_store"
                  /\ IsSome(projects[handler'[h].name])
                  /\ projects' = projects
            /\ (handler[h].pc = "upd_store" /\ handler'[h].pc = "upd_apply") =>
                  /\ zipCache'[handler'[h].zipfile.path] = Some(handler[h].blob)
                  /\ handler'[h].zipfile.hash = HashOf(<<>>, handler[h].blob)
                  /\ handler'[h].hash = handler[h].hash
                  /\ projects' = projects
            /\ (handler[h].pc \in {"upd_store", "upd_apply"} /\ handler'[h] = handler[h]) =>
                  UNCHANGED <<projects, zipCache, hasher>>
            /\ Answers(h, "upd_apply") =>
                  LET n == handler[h].name
                      blob == Unwrap(zipCache[handler[h].zipfile.path])
                      seq == SeqUpdate(projects, n, blob, handler[h].hash) IN
                  /\ handler[h].zipfile.hash = HashOf(<<>>, blob)
                  /\ handler'[h].resp.success = seq.success
                  /\ projects' = seq.map
       /\ projects' # projects =>
             \E h \in Handlers :
                 \/ Starts(h, "register")
                 \/ Starts(h, "unregister")
                 \/ Answers(h, "upd_apply")]_vars

\* Two updates of one project, both with the right digest of the same blob,
\* have been answered: one with success, the other refused.
C13_Witness ==
    \E h, g \in Handlers :
        /\ Answered(h, "update") /\ handler[h].resp.success
        /\ Answered(g, "update") /\ ~handler[g].resp.success
        /\ handler[g].resp.name = handler[h].resp.name
        /\ handler[g].resp.hash = handler[h].resp.hash
        /\ handler[g].resp.error = "unsuitable state"

\* A file that holds one complete serialization of a registry.
CompleteSnapshot(file) ==
    /\ file.kind = "json"
    /\ \E p \in [Names -> {None} \cup {Some(FromJson(file.data[k])) : k \in 1..Len(file.data)}] :
           file.data = Serialize(p)

\* C14: projects.json is absent or holds one complete serialization of the
\* registry, in every state of every interleaving of the snapshot tasks.
C14_SnapshotWhole == IsSome(finalFile) => CompleteSnapshot(Unwrap(finalFile))

\* projects.json is the file a snapshot task has truncated and not yet
\* written: the other task renamed it between the two.
C14_Witness ==
    /\ IsSome(finalFile) /\ Unwrap(finalFile).kind = "empty"
    /\ \E f \in FlushTasks : flush[f].pc = "created" /\ flush[f].fd = "final"
    /\ \E n \in Names : IsSome(projects[n])

\* No snapshot task is in flight.
NoFlush == \A f \in FlushTasks : flush[f].pc \in {"idle", "off"}

\* C15: the file a snapshot task puts under the final name is the
\* serialization of the registry, and loading it into an empty registry
\* gives that registry again: the same names, the same lists of commands
\* and the same content state; a server started on the snapshot of the
\* registry starts with that registry.
C15_RoundTrip ==
    [][/\ \A f \in FlushTasks :
            (flush[f].pc = "written" /\ IsSome(tmpFile) /\ tmpFile' = None) =>
                /\ finalFile' = Some(JsonFile(Serialize(projects)))
                /\ LoadProjects(finalFile') = projects
       /\ (NoFlush /\ finalFile = Some(JsonFile(Serialize(projects)))) =>
             projects' = projects]_vars

\* The snapshot of two projects has been written, one Committed and one
\* Uninitialized, the first with three commands of which one is the empty
\* command of a string that does not split; loading it gives both back.
C15_Witness ==
    /\ NoFlush
    /\ IsSome(finalFile) /\ Len(Unwrap(finalFile).data) = 2
    /\ \E n, m \in Names : Committed(projects[n]) /\ Uninitialized(projects[m])
    /\ \E n \in Names :
          /\ IsSome(projects[n])
          /\ Len(Unwrap(projects[n]).tests) = 3
          /\ \E i \in 1..3 : Unwrap(projects[n]).tests[i] = <<>>
          /\ \E i \in 1..3 : Len(Unwrap(projects[n]).tests[i]) = 2
    /\ LoadProjects(finalFile) = projects

\* projects.json holds the serialization of the registry as it is now.
Durable == finalFile = Some(JsonFile(Serialize(projects)))

\* The step of handler h that makes a mutation succeed.
Mutates(h) ==
    \/ Starts(h, "register") /\ handler'[h].resp.success
    \/ Starts(h, "unregister") /\ handler'[h].pc = "unreg_clear"
    \/ Answers(h, "upd_apply") /\ handler'[h].resp.success

\* C16: the step that makes a register, an unregister or an update succeed
\* starts a snapshot task; a snapshot task that has been started leads to
\* projects.json holding the registry of a later moment, which includes the
\* mutation; and when no snapshot task is in flight projects.json holds the
\* current registry, or is absent when nothing was ever registered.
C16_EventuallyDurable ==
    /\ [][\A h \in Handlers : Mutates(h) =>
             \E f \in FlushTasks : flush[f].pc = "idle" /\ flush'[f].pc = "spawned"]_vars
    /\ \A f \in FlushTasks : (flush[f].pc = "spawned") ~> Durable
    /\ [](NoFlush => (Durable \/ (finalFile = None /\ projects = EmptyRegistry)))

\* Two snapshot tasks were in flight: one has renamed the file, the other
\* wrote through the renamed file and is about to find no temporary file;
\* projects.json holds the Committed project.
C16_Witness ==
    /\ \E f \in FlushTasks : flush[f].pc = "written"
    /\ tmpFile = None
    /\ Durable
    /\ \E n \in Names : Committed(projects[n])

\* A capsule on which encapsulate has not been called.
NotEncapsulated(c) ==
    \/ c.kind = "transparent" /\ c.dir = None
    \/ c.kind = "kubernetes" /\ c.podname = None

\* C17: run_test on a capsule that was not encapsulated returns an error,
\* having run no command, and does not panic; a method is called only on a
\* capsule its caller still owns, and discard takes the capsule away, so
\* that no run_test and no second discard follows it.
C17_CapsuleContract ==
    [][/\ (capOut'.call = "run_test" /\ NotEncapsulated(capsule)) =>
              /\ capOut'.res = "err"
              /\ capOut'.cmds = <<>>
       /\ capOut'.call \in {"encapsulate", "run_test", "discard"} => capsule # NoCapsule
       /\ capOut'.call = "discard" => capsule' = NoCapsule]_vars

\* C18: a create, copy or delete command line that exits with status 0 makes
\* kube_cmd_silent return Ok, one that exits with another status makes it
\* return an error.
C18_ManagementStatus ==
    \A k \in 1..Len(capOut.cmds) :
        LET c == capOut.cmds[k] IN
        (c.verb \in {"run", "cp", "delete"} /\ c.out.spawned /\ IsSome(c.out.code)) =>
            (c.ok <=> c.out.code = Some(0))

\* C19: a discard that follows an encapsulate which returned an error
\* returns Ok and does not panic.
C19_DiscardAfterFailure ==
    [][(capOut.call = "encapsulate" /\ capOut.res = "err" /\ capOut'.call = "discard") =>
          capOut'.res = "ok"]_vars

\* C20: in the response of a run every reported result has success = TRUE
\* exactly when the command's exit code is Some(0), so FALSE for every other
\* code and for a command killed by a signal, and carries the command line,
\* the stdout and the stderr of the command's output as they were.
C20_SuccessIffExitZero ==
    [][\A h \in Handlers :
          (handler[h].pc = "run_loop" /\ handler'[h].pc = "done"
              /\ handler'[h].resp.kind = "reply") =>
              LET outputs == handler[h].results
                  reported == handler'[h].resp.results IN
              /\ Len(reported) = Len(outputs)
              /\ \A k \in 1..Len(outputs) :
                    /\ reported[k].success <=> outputs[k].code = Some(0)
                    /\ outputs[k].code = None => ~reported[k].success
                    /\ reported[k].command = outputs[k].command
                    /\ reported[k].stdout = outputs[k].stdout
                    /\ reported[k].stderr = outputs[k].stderr]_vars

\* A run of three commands has reported one success and two failures after
\* the third command succeeded.
C20_Witness ==
    \E h \in Handlers :
        /\ Answered(h, "run") /\ handler[h].resp.kind = "reply"
        /\ Len(handler[h].resp.results) = 3
        /\ ~handler[h].resp.results[1].success
        /\ ~handler[h].resp.results[2].success
        /\ handler[h].resp.results[3].success

\* C21: a run ends with a results response or with an error status, also
\* the run of a project that holds an empty command vector: the handler is
\* never unwound by a panic on the command's first element.
C21_RunAlwaysAnswers ==
    \A h \in Handlers :
        Answered(h, "run") => handler[h].resp.kind \in {"reply", "status"}

\* The run of a Committed project whose only test string did not split has
\* panicked before any command was launched.
C21_Witness ==
    \E h \in Handlers :
        /\ Answered(h, "run") /\ handler[h].resp.kind = "panic"
        /\ handler[h].launched = <<>>
        /\ Unwrap(projects[handler[h].resp.name]).tests = << <<>> >>

\* C22: an update reaches apply_update only with its blob stored; an apply
\* step whose extraction fails answers success=false, leaves the map as it
\* was, the project Uninitialized, and starts no snapshot task; the step
\* that sets the digest has extracted the stored archive into the project's
\* directory, and it is the only step of an update that starts a snapshot
\* task.
C22_UpdateOrder ==
    /\ [](\A h \in Handlers : handler[h].pc = "upd_apply" =>
             /\ IsSome(zipCache[handler[h].zipfile.path])
             /\ IsSome(projects[handler[h].name]))
    /\ [][\A h \in Handlers :
             /\ (Answers(h, "upd_apply") /\ handler'[h].resp.error = "could not extract") =>
                   /\ ~handler'[h].resp.success
                   /\ Uninitialized(projects[handler[h].name])
                   /\ projects' = projects
                   /\ flush' = flush
             /\ (Answers(h, "upd_apply") /\ projects' # projects) =>
                   LET n == handler[h].name IN
                   /\ handler'[h].resp.success
                   /\ Committed(projects'[n])
                   /\ IsSome(dirs'[n])
                   /\ Unwrap(zipCache[handler[h].zipfile.path]) \in Unwrap(dirs'[n])
                   /\ flush' # flush
             /\ ((handler[h].pc \in {"upd_store", "upd_apply"} \/ Starts(h, "update"))
                    /\ handler'[h] # handler[h] /\ flush' # flush) =>
                   /\ Answers(h, "upd_apply")
                   /\ projects' # projects]_vars

\* An update has failed in its extraction, which had created the directory:
\* the project is Uninitialized, its directory is empty, no snapshot task
\* runs and none has written a Committed project.
C22_Witness ==
    \E h \in Handlers :
        /\ Answered(h, "update") /\ handler[h].resp.error = "could not extract"
        /\ Uninitialized(projects[handler[h].resp.name])
        /\ dirs[handler[h].resp.name] = Some({})
        /\ NoFlush

\* C23: the directory of a project that is registered and Committed exists
\* and holds the archive its digest was computed from, in every state of
\* every interleaving.
C23_DirectoryOwned ==
    \A n \in Names :
        Committed(projects[n]) =>
            /\ IsSome(dirs[n])
            /\ \E b \in Unwrap(dirs[n]) : Some(HashOf(<<>>, b)) = Unwrap(projects[n]).hash

\* The unregistration of a name has removed the directory of the project
\* that was registered under the name and updated in the meantime, while
\* the other handler runs that project's tests.
C23_Witness ==
    \E h, g \in Handlers :
        /\ Answered(h, "unregister") /\ handler[h].resp.success
        /\ Committed(projects[handler[h].resp.name])
        /\ dirs[handler[h].resp.name] = None
        /\ handler[g].pc = "run_loop" /\ handler[g].name = handler[h].resp.name
        /\ handler[g].launched = <<>>

\* C24: the create command line of a pod capsule's encapsulate carries the
\* options of the capsule merged with the options passed to the call: for
\* the image and for the ports, the value passed when one is passed, else
\* the capsule's.
C24_MergedOptions ==
    [][(capOut'.call = "encapsulate" /\ capsule # NoCapsule /\ capsule.kind = "kubernetes") =>
          \A args \in PodOptionsSet :
              (\E ident \in Idents, dir \in Names, o1, o2 \in Outcomes :
                   Encapsulate(ident, dir, args, o1, o2)) =>
                  LET run == capOut'.cmds[1]
                      merged == [capsule' EXCEPT !.options = Merge(capsule.options, args)] IN
                  /\ run.verb = "run"
                  /\ run.args = KubeRunArgs(merged).args]_vars

\* C25: a run that executes commands does so through a capsule: while it is
\* in its loop a capsule has been encapsulated for it, every command it has
\* launched was run by the capsule's run_test, and when it has ended, with
\* results or aborted, the capsule has been discarded.
C25_RunThroughCapsule ==
    \A h \in Handlers :
        /\ handler[h].pc = "run_loop" =>
              /\ capsule # NoCapsule
              /\ ~NotEncapsulated(capsule)
              /\ handler[h].launched # <<>> => capOut.call = "run_test"
        /\ (Answered(h, "run") /\ handler[h].launched # <<>>) =>
              /\ capsule = NoCapsule
              /\ capOut.call = "discard"

\* A run has answered with the outcomes of two commands and no method of
\* a capsule has been called.
C25_Witness ==
    \E h \in Handlers :
        /\ Answered(h, "run") /\ handler[h].resp.kind = "reply"
        /\ Len(handler[h].launched) = 2
        /\ capsule = NoCapsule
        /\ capOut = NoCall

\* C26: an encapsulate of the pod backend has issued the create command
\* line first and the copy next, the copy only after a create that exited
\* with status 0, has returned Ok only when both exited with status 0, and
\* has issued no delete.
C26_CreateThenCopy ==
    (capOut.call = "encapsulate" /\ capsule # NoCapsule /\ capsule.kind = "kubernetes") =>
        LET cmds == capOut.cmds
            ExitZero(c) == c.out.spawned /\ c.out.code = Some(0) IN
        /\ Len(cmds) \in {1, 2}
        /\ cmds[1].verb = "run"
        /\ Len(cmds) = 2 => (cmds[2].verb = "cp" /\ ExitZero(cmds[1]))
        /\ capOut.res = "ok" => (Len(cmds) = 2 /\ ExitZero(cmds[1]) /\ ExitZero(cmds[2]))
        /\ \A k \in 1..Len(cmds) : cmds[k].verb # "delete"

\* encapsulate has returned Ok after a create and a copy that both exited
\* with status 1: no pod exists.
C26_Witness ==
    /\ capOut.call = "encapsulate" /\ capOut.res = "ok"
    /\ Len(capOut.cmds) = 2
    /\ capOut.cmds[1].out.code = Some(1) /\ capOut.cmds[2].out.code = Some(1)
    /\ pods.exist = {}

\* C27: a store step that writes the blob writes it to a path where no
\* earlier store has written, also when both happen within one second.
C27_FreshPath ==
    [][\A h \in Handlers :
          (handler[h].pc = "upd_store" /\ handler'[h].pc = "upd_apply") =>
              zipCache[handler'[h].zipfile.path] = None]_vars

\* Two stores one second apart: the second has written to the path of
\* second 1 and the blob of the first is still at the path of second 0.
C27_Witness ==
    \E h \in Handlers :
        /\ handler[h].pc = "upd_apply"
        /\ handler[h].zipfile.path = 1
        /\ IsSome(zipCache[0])
        /\ IsSome(zipCache[1])
        /\ zipCache[0] # zipCache[1]

\* C28: while a handler is inside the loop of a run it is a reader of the
\* map, no step changes the map and no other handler begins a register, an
\* unregister or an update (each of them waits for the write lock); and the
\* name and the digest of the run's response are those of the entry the run
\* looked up, which is the entry the map still holds.
C28_RunHoldsMap ==
    [][\A h \in Handlers : handler[h].pc = "run_loop" =>
          /\ h \in readers
          /\ projects' = projects
          /\ \A g \in Handlers \ {h} :
                ~(Starts(g, "register") \/ Starts(g, "unregister") \/ Starts(g, "update"))
          /\ (Answers(h, "run_loop") /\ handler'[h].resp.kind = "reply") =>
                /\ Committed(projects[handler[h].name])
                /\ handler'[h].resp.name = handler[h].name
                /\ Some(handler'[h].resp.hash) = Unwrap(projects[handler[h].name]).hash]_vars

\* A run has been answered with its results and the project it ran has
\* since been unregistered by the other handler.
C28_Witness ==
    \E h, g \in Handlers :
        /\ Answered(h, "run") /\ handler[h].resp.kind = "reply"
        /\ Len(handler[h].launched) = 1
        /\ Answered(g, "unregister") /\ handler[g].resp.success
        /\ handler[g].resp.name = handler[h].resp.name
        /\ projects[handler[h].resp.name] = None

\* A step that starts a snapshot task, and the step of handler h that
\* answers a request with a refusal or a failure, or answers an increment
\* or a run.
SpawnsTask == \E f \in FlushTasks : flush[f].pc # "spawned" /\ flush'[f].pc = "spawned"
Refuses(h) ==
    /\ handler[h].pc # "done"
    /\ handler'[h].pc = "done"
    /\ \/ ~handler'[h].resp.success
       \/ handler'[h].resp.op \in {"increment", "run"}

\* C29: a step that answers a refusal or a failure (register of a taken
\* name, unregister, update or run of an unknown name, update of a Committed
\* project, digest mismatch, failed extraction, failed blob storage), an
\* increment or a run, and every step of a run, leaves the map as it was and
\* starts no snapshot task; the map changes and a snapshot task is started
\* only in the step that makes a register, an unregister or an update
\* succeed.
C29_FailureFrame ==
    [][/\ \A h \in Handlers :
             (Refuses(h) \/ handler[h].pc = "run_loop" \/ Starts(h, "run")) =>
                 /\ projects' = projects
                 /\ ~SpawnsTask
       /\ (projects' # projects \/ SpawnsTask) => \E h \in Handlers : Mutates(h)]_vars

\* An update has been answered with the blob-storage failure: the project is
\* still Uninitialized and no snapshot task is in flight.
C29_Witness ==
    \E h \in Handlers :
        /\ Answered(h, "update")
        /\ handler[h].resp.kind = "status"
        /\ Uninitialized(projects[handler[h].resp.name])
        /\ NoFlush
        /\ finalFile # None

\* C30: the rename that completes a snapshot task puts the serialization of
\* the whole registry under the final name, the registry being the one the
\* task locked after the mutation that started it, which no step changes
\* while a task holds it; and every step that changes projects.json makes it
\* the serialization of the registry of that moment, so that the file never
\* goes back to an older registry.
C30_SnapshotMonotone ==
    [][/\ \A f \in FlushTasks :
             (flush[f].pc = "written" /\ IsSome(tmpFile) /\ tmpFile' = None) =>
                 finalFile' = Some(JsonFile(Serialize(projects)))
       /\ finalFile' # finalFile => finalFile' = Some(JsonFile(Serialize(projects')))
       /\ (\E f \in FlushTasks : flush[f].pc \in {"locked", "created", "written"}) =>
             projects' = projects]_vars

\* A snapshot task has completed its rename and projects.json is the empty
\* file the other task, the only one still in flight, had just truncated,
\* while a project is Committed.
C30_Witness ==
    /\ finalFile = Some(EmptyFile)
    /\ tmpFile = None
    /\ \E f \in FlushTasks :
          /\ flush[f] = [pc |-> "created", fd |-> "final"]
          /\ \A g \in FlushTasks \ {f} : flush[g].pc = "idle"
    /\ \E n \in Names : Committed(projects[n])

\* C31: a task that takes the hasher finds it reset, the hasher holds bytes
\* only while a task is inside hash(), and then only bytes of that task's
\* input; and the digest a call returns is the digest of its own input fed
\* to a reset hasher, whatever calls came before or wait beside it.
C31_DigestOfOwnInput ==
    /\ [](/\ HasherFree => hasher = <<>>
          /\ \A h \in Handlers :
                /\ handler[h].pc = "hash_locked" => hasher = <<>>
                /\ handler[h].pc = "hash_updated" => hasher = handler[h].data)
    /\ [][\A h \in Handlers :
             /\ (handler[h].pc = "idle" /\ handler'[h].pc = "hash_locked") => hasher = <<>>
             /\ Answers(h, "hash_updated") =>
                   /\ handler'[h].resp.digest = HashOf(<<>>, handler[h].data)
                   /\ hasher' = <<>>]_vars

\* One task has its digest of two bytes and the other, which had been
\* waiting for the hasher, has fed its own single byte.
C31_Witness ==
    \E h, g \in Handlers :
        /\ Answered(h, "hash")
        /\ handler[h].resp.data = <<2, 1>>
        /\ handler[h].resp.digest = HashOf(<<>>, <<2, 1>>)
        /\ handler[g].pc = "hash_updated"
        /\ handler[g].data = <<1>>

====
